---- MODULE Spec2Model ----
(***************************************************************************)
(* metalsmith-autonav: navigation tree and breadcrumb generation.          *)
(*                                                                         *)
(* JavaScript strings are sequences of one-character strings, so that the  *)
(* string operations of the plugin (split, replace, startsWith, endsWith,  *)
(* concatenation without separators) are computed, not assumed.            *)
(* A JavaScript object used as an insertion-ordered map (the tree, a       *)
(* node's children) is a sequence of [key, node] entries.                  *)
(* An optional property is a sequence of length 0 (undefined) or 1.        *)
(***************************************************************************)
EXTENDS Integers, Sequences, FiniteSets, TLC

(***************************************************************************)
(* String primitives                                                       *)
(***************************************************************************)
Slash == <<"/">>
DotMd == <<".", "m", "d">>
DotHtml == <<".", "h", "t", "m", "l">>
IndexName == <<"i", "n", "d", "e", "x">>
IndexMd == IndexName \o DotMd
IndexHtml == IndexName \o DotHtml
HomeKey == <<"h", "o", "m", "e">>

LowerLetters == <<"a", "b", "c", "d", "e", "f", "g", "h", "i", "j", "k", "l", "m",
                  "n", "o", "p", "q", "r", "s", "t", "u", "v", "w", "x", "y", "z">>
UpperLetters == <<"A", "B", "C", "D", "E", "F", "G", "H", "I", "J", "K", "L", "M",
                  "N", "O", "P", "Q", "R", "S", "T", "U", "V", "W", "X", "Y", "Z">>
Digits == {"0", "1", "2", "3", "4", "5", "6", "7", "8", "9"}

\* \w of a JavaScript regular expression
IsWordChar(c) ==
  \/ \E i \in 1..26 : LowerLetters[i] = c \/ UpperLetters[i] = c
  \/ c \in Digits
  \/ c = "_"

ToUpperChar(c) ==
  IF \E i \in 1..26 : LowerLetters[i] = c
  THEN UpperLetters[CHOOSE i \in 1..26 : LowerLetters[i] = c]
  ELSE c

ToLowerChar(c) ==
  IF \E i \in 1..26 : UpperLetters[i] = c
  THEN LowerLetters[CHOOSE i \in 1..26 : UpperLetters[i] = c]
  ELSE c

\* String.prototype.toLowerCase
ToLowerCase(s) == [i \in 1..Len(s) |-> ToLowerChar(s[i])]

\* String.prototype.endsWith / startsWith
EndsWith(s, suf) ==
  Len(s) >= Len(suf) /\ SubSeq(s, Len(s) - Len(suf) + 1, Len(s)) = suf

StartsWith(s, pre) ==
  Len(s) >= Len(pre) /\ SubSeq(s, 1, Len(pre)) = pre

DropLast(s, n) == SubSeq(s, 1, Len(s) - n)

\* s.replace(/\.(html|md)$/, '')
StripExt(s) ==
  IF EndsWith(s, DotHtml) THEN DropLast(s, Len(DotHtml))
  ELSE IF EndsWith(s, DotMd) THEN DropLast(s, Len(DotMd))
  ELSE s

\* s.replace(/\.(md|html)$/, '/')
ExtToSlash(s) ==
  IF EndsWith(s, DotHtml) \/ EndsWith(s, DotMd) THEN StripExt(s) \o Slash ELSE s

\* s.replace(/index\.(md|html)$/, '')
StripIndexFile(s) ==
  IF EndsWith(s, IndexMd) THEN DropLast(s, Len(IndexMd))
  ELSE IF EndsWith(s, IndexHtml) THEN DropLast(s, Len(IndexHtml))
  ELSE s

\* s.replace(/\.md$/, '.html')
MdToHtml(s) ==
  IF EndsWith(s, DotMd) THEN DropLast(s, Len(DotMd)) \o DotHtml ELSE s

\* s.replace(/\/$/, '')
StripTrailingSlash(s) ==
  IF EndsWith(s, Slash) THEN DropLast(s, 1) ELSE s

\* s.split('/')
RECURSIVE Split(_)
Split(s) ==
  IF \E i \in 1..Len(s) : s[i] = "/"
  THEN LET i == CHOOSE i \in 1..Len(s) : s[i] = "/" /\ \A j \in 1..(i - 1) : s[j] # "/"
       IN  <<SubSeq(s, 1, i - 1)>> \o Split(SubSeq(s, i + 1, Len(s)))
  ELSE <<s>>

\* s.split('/').filter(Boolean)
SplitNonEmpty(s) == SelectSeq(Split(s), LAMBDA p : p # <<>>)

\* s.replace(/-/g, ' ').replace(/\b\w/g, c => c.toUpperCase())
TitleCase(s) ==
  LET t == [i \in 1..Len(s) |-> IF s[i] = "-" THEN " " ELSE s[i]]
  IN  [i \in 1..Len(t) |->
         IF IsWordChar(t[i]) /\ (i = 1 \/ ~IsWordChar(t[i - 1]))
         THEN ToUpperChar(t[i]) ELSE t[i]]

\* Concatenation of a sequence of strings
RECURSIVE Concat(_)
Concat(ss) == IF ss = <<>> THEN <<>> ELSE Head(ss) \o Concat(Tail(ss))

\* Collation rank of a character: punctuation, then digits, then letters
\* (a letter and its capital share a rank)
CharRank(c) ==
  IF \E i \in 1..26 : LowerLetters[i] = c \/ UpperLetters[i] = c
  THEN 20 + (CHOOSE i \in 1..26 : LowerLetters[i] = c \/ UpperLetters[i] = c)
  ELSE IF c \in Digits
  THEN 10 + (CHOOSE d \in 0..9 : <<"0", "1", "2", "3", "4", "5", "6", "7", "8", "9">>[d + 1] = c)
  ELSE IF c = " " THEN 1
  ELSE IF c = "_" THEN 2
  ELSE IF c = "-" THEN 3
  ELSE IF c = "." THEN 4
  ELSE IF c = "/" THEN 5
  ELSE 6

\* Lexicographic comparison of two sequences of ranks: -1, 0 or 1
RECURSIVE RankCompare(_, _)
RankCompare(a, b) ==
  IF a = <<>> /\ b = <<>> THEN 0
  ELSE IF a = <<>> THEN -1
  ELSE IF b = <<>> THEN 1
  ELSE IF Head(a) < Head(b) THEN -1
  ELSE IF Head(a) > Head(b) THEN 1
  ELSE RankCompare(Tail(a), Tail(b))

\* a.localeCompare(b): letters first without regard to case, then a small
\* letter before its capital
LocaleCompare(a, b) ==
  LET primary(s) == [i \in 1..Len(s) |-> CharRank(s[i])]
      isUpper(c) == \E i \in 1..26 : UpperLetters[i] = c
      tertiary(s) == [i \in 1..Len(s) |-> IF isUpper(s[i]) THEN 1 ELSE 0]
      first == RankCompare(primary(a), primary(b))
  IN  IF first # 0 THEN first ELSE RankCompare(tertiary(a), tertiary(b))

(***************************************************************************)
(* Insertion-ordered maps (JavaScript objects)                             *)
(***************************************************************************)
Keys(t) == [i \in 1..Len(t) |-> t[i].key]
Has(t, k) == \E i \in 1..Len(t) : t[i].key = k
Get(t, k) == t[CHOOSE i \in 1..Len(t) : t[i].key = k].node
\* t[k] = n : an existing key keeps its position, a new key is appended
Put(t, k, n) ==
  IF Has(t, k)
  THEN [i \in 1..Len(t) |-> IF t[i].key = k THEN [key |-> k, node |-> n] ELSE t[i]]
  ELSE Append(t, [key |-> k, node |-> n])
\* delete t[k]
Del(t, k) == SelectSeq(t, LAMBDA e : e.key # k)

(***************************************************************************)
(* File records, navigation items                                          *)
(***************************************************************************)
None == <<>>
Some(v) == <<v>>
IsSome(o) == o # <<>>
Val(o) == o[1]

\* The empty navigation object {} that buildNavTree / generateBreadcrumbs create
EmptyNavigation ==
  [navExclude |-> FALSE, footerExclude |-> FALSE, navLabel |-> None, navIndex |-> None,
   path |-> None, breadcrumb |-> None]

\* The property names a file record or its navigation object carries
FlagKeys == {"navExclude", "footerExclude"}
StringKeys == {"navLabel", "path"}

\* if (obj[key]) : the truthiness of a property of a file record or of its
\* navigation object
Truthy(obj, key) ==
  IF key \in FlagKeys THEN obj[key]
  ELSE IF key \in StringKeys THEN IsSome(obj[key]) /\ Val(obj[key]) # <<>>
  ELSE IF key = "navIndex" THEN IsSome(obj[key]) /\ Val(obj[key]) # 0
  ELSE IF key = "breadcrumb" THEN IsSome(obj[key])
  ELSE FALSE

\* obj[key] for a string-valued property, None when undefined
StringProp(obj, key) == IF key \in StringKeys THEN obj[key] ELSE None

\* getNavProperty(file, options.navExcludeKey, options), as a truth value
NavPropExclude(file, options) ==
  IsSome(file.navigation) /\ Truthy(Val(file.navigation), options.navExcludeKey)
\* getNavProperty(file, options.navLabelKey, options)
NavPropLabel(file, options) ==
  IF IsSome(file.navigation)
  THEN StringProp(Val(file.navigation), options.navLabelKey) ELSE None
\* getNavProperty(file, options.navIndexKey, options)
NavPropIndex(file) == IF IsSome(file.navigation) THEN Val(file.navigation).navIndex ELSE None

\* s.replace(/\\/g, '/')
ReplaceBackslashes(s) == [i \in 1..Len(s) |-> IF s[i] = "\\" THEN "/" ELSE s[i]]

\* filePath.endsWith('index.md') || filePath.endsWith('index.html')
EndsWithIndexFile(filePath) == EndsWith(filePath, IndexMd) \/ EndsWith(filePath, IndexHtml)

\* The URL path without the final step that puts '/' in front
NormalizedPathUnprefixed(filePath, options) ==
  LET pathParts == Split(filePath)
  IN  IF options.usePermalinks
      THEN IF EndsWithIndexFile(filePath)
           THEN StripIndexFile(filePath)
           ELSE IF Len(pathParts) > 1
                THEN Slash \o pathParts[1] \o Slash
                       \o StripExt(pathParts[Len(pathParts)]) \o Slash
                ELSE ReplaceBackslashes(ExtToSlash(filePath))
      ELSE MdToHtml(filePath)

\* The URL path buildNavTree computes for a file (urlPath, normalizedPath)
NormalizedPath(filePath, options) ==
  LET pathParts == Split(filePath)
      urlPath ==
        IF options.usePermalinks
        THEN IF EndsWithIndexFile(filePath)
             THEN StripIndexFile(filePath)
             ELSE IF Len(pathParts) > 1
                  THEN Slash \o pathParts[1] \o Slash
                         \o StripExt(pathParts[Len(pathParts)]) \o Slash
                  ELSE ReplaceBackslashes(ExtToSlash(filePath))
        ELSE MdToHtml(filePath)
      urlPath2 == ReplaceBackslashes(urlPath)
  IN  IF StartsWith(urlPath2, Slash) THEN urlPath2 ELSE Slash \o urlPath2

HomeTitle == <<"H", "o", "m", "e">>

\* The functions a configuration may pass as navLabelKey, by name:
\*   labelFunction: (file, filePath, filename) =>
\*     filename === 'index.md' ? 'Function Home' : `Custom ${filename.replace(/\.md$/, '')}`
\*   emptyLabel: () => ''
LabelFunctions == {"labelFunction", "emptyLabel"}

S_FunctionHome == <<"F", "u", "n", "c", "t", "i", "o", "n", " ", "H", "o", "m", "e">>
S_Custom == <<"C", "u", "s", "t", "o", "m", " ">>

\* options.navLabelKey(file, filePath, filename)
CallLabelFunction(fn, file, filePath, filename) ==
  IF fn = "labelFunction"
  THEN IF filename = IndexMd THEN S_FunctionHome
       ELSE S_Custom \o (IF EndsWith(filename, DotMd) THEN DropLast(filename, Len(DotMd))
                         ELSE filename)
  ELSE <<>>

\* The title buildNavTree gives the navigation item of a file
NavTitle(file, options) ==
  LET segs == Split(file.fpath)
      segments == SubSeq(segs, 1, Len(segs) - 1)
      filename == segs[Len(segs)]
      baseFilename == StripExt(filename)
      toTitleCase(str) ==
        IF str = IndexName /\ Len(segments) > 0
        THEN TitleCase(segments[Len(segments)])
        ELSE TitleCase(str)
      nested == NavPropLabel(file, options)
      customLabel == IF IsSome(nested) /\ Val(nested) # <<>> THEN nested
                     ELSE StringProp(file, options.navLabelKey)
  IN  IF options.navLabelKey \in LabelFunctions
      THEN LET navTitle == CallLabelFunction(options.navLabelKey, file, file.fpath, filename)
           IN  IF (file.fpath = IndexMd \/ file.fpath = IndexHtml) /\ navTitle = <<>>
               THEN HomeTitle ELSE navTitle
      ELSE IF IsSome(customLabel) /\ Val(customLabel) # <<>> THEN Val(customLabel)
      ELSE IF baseFilename = IndexName /\ Len(segments) = 0 THEN HomeTitle
      ELSE toTitleCase(baseFilename)

\* A directory node created on the way to a file
Placeholder(key, path) ==
  [title |-> TitleCase(key), path |-> path, index |-> None, children |-> <<>>]

\* navItem of buildNavTree
NavItem(file, options) ==
  [title |-> NavTitle(file, options),
   path |-> NormalizedPath(file.fpath, options),
   index |-> NavPropIndex(file),
   children |-> <<>>]

(***************************************************************************)
(* addToTree                                                               *)
(***************************************************************************)
\* buildTreeRecursively(node, pathSegments, depth): node is a children map;
\* the result is that map after the insertion (the JavaScript mutates it).
RECURSIVE buildTreeRecursively(_, _, _, _, _)
buildTreeRecursively(node, pathSegments, depth, navItem, options) ==
  IF depth >= Len(pathSegments) THEN node
  ELSE
    LET segment == pathSegments[depth + 1]
        isLastSegment == depth = Len(pathSegments) - 1
        isIndexFile == isLastSegment /\ (segment = IndexHtml \/ segment = IndexMd)
        curPiece(i) ==
          LET pathSegment == StripIndexFile(pathSegments[i + 1])
          IN  IF pathSegment # <<>>
              THEN pathSegment \o (IF i < depth \/ ~options.usePermalinks THEN <<>> ELSE Slash)
              ELSE <<>>
        currentPath == Slash \o Concat([j \in 1..(depth + 1) |-> curPiece(j - 1)])
        segmentPath ==
          IF options.usePermalinks THEN currentPath
          ELSE IF isIndexFile THEN currentPath
          ELSE StripTrailingSlash(currentPath) \o DotHtml
    IN
    IF isIndexFile THEN
      IF depth > 0 THEN
        LET parentSegment == StripExt(pathSegments[depth])
            node1 == IF ~Has(node, parentSegment)
                     THEN Put(node, parentSegment, Placeholder(parentSegment, segmentPath))
                     ELSE node
            old == Get(node1, parentSegment)
        IN  Put(node1, parentSegment,
                [old EXCEPT !.title = navItem.title,
                            !.path = navItem.path,
                            !.index = IF IsSome(navItem.index) THEN navItem.index ELSE @])
      ELSE
        IF ~Has(node, HomeKey) THEN Put(node, HomeKey, navItem)
        ELSE LET old == Get(node, HomeKey)
             IN  Put(node, HomeKey,
                     [old EXCEPT !.title = navItem.title,
                                 !.path = navItem.path,
                                 !.index = IF IsSome(navItem.index) THEN navItem.index ELSE @])
    ELSE IF isLastSegment THEN
      LET key == StripExt(segment)
      IN  IF depth = 0 THEN Put(node, key, navItem)
          ELSE
            LET parentKey == StripExt(pathSegments[depth])
                parPiece(i) ==
                  LET pathSegment == StripIndexFile(pathSegments[i + 1])
                  IN  IF pathSegment # <<>>
                      THEN pathSegment \o (IF options.usePermalinks THEN Slash ELSE <<>>)
                      ELSE <<>>
                parentPath == Slash \o Concat([j \in 1..depth |-> parPiece(j - 1)])
                node1 == IF ~Has(node, parentKey)
                         THEN Put(node, parentKey, Placeholder(parentKey, parentPath))
                         ELSE node
                parent == Get(node1, parentKey)
            IN  IF ~Has(parent.children, key)
                THEN Put(node1, parentKey,
                         [parent EXCEPT !.children = Put(@, key, navItem)])
                ELSE node1
    ELSE
      LET key == StripExt(segment)
          node1 == IF ~Has(node, key)
                   THEN Put(node, key, Placeholder(key, segmentPath))
                   ELSE node
          dir == Get(node1, key)
      IN  Put(node1, key,
              [dir EXCEPT !.children =
                 buildTreeRecursively(@, pathSegments, depth + 1, navItem, options)])

\* addToTree(tree, segments, navItem, filePath, options): the tree afterwards
addToTree(tree, segments, navItem, filePath, options) ==
  IF Len(segments) = 0
  THEN LET key == IF filePath = IndexHtml \/ filePath = IndexMd
                  THEN HomeKey
                  ELSE ToLowerCase(StripExt(filePath))
       IN  Put(tree, key, navItem)
  ELSE LET segs == Split(filePath)
       IN  buildTreeRecursively(tree, segments \o <<segs[Len(segs)]>>, 0, navItem, options)

(***************************************************************************)
(* cleanupTree                                                             *)
(***************************************************************************)
\* The paths of all nodes of a tree, in traversal order (collectPaths)
RECURSIVE collectPaths(_)
collectPaths(t) ==
  IF t = <<>> THEN <<>>
  ELSE LET n == t[1].node
       IN  (IF n.path # <<>> THEN <<n.path>> ELSE <<>>)
             \o collectPaths(n.children) \o collectPaths(Tail(t))

\* The set "duplicates": paths seen more than once by collectPaths
DuplicatePaths(tree) ==
  LET ps == collectPaths(tree)
  IN  {ps[i] : i \in {i \in 1..Len(ps) : \E j \in 1..Len(ps) : j # i /\ ps[j] = ps[i]}}

\* /[-_.0-9]/
IsSeparatorChar(c) == c \in {"-", "_", "."} \cup Digits

\* The path fixMalformedPaths leaves on a child node
FixedPath(path) ==
  LET pathParts == SplitNonEmpty(path)
  IN  IF Len(pathParts) >= 2
      THEN LET firstPart == pathParts[1]
               secondPart == pathParts[2]
               remainder == SubSeq(secondPart, Len(firstPart) + 1, Len(secondPart))
           IN  IF secondPart = firstPart THEN Slash \o firstPart \o Slash
               ELSE IF secondPart = firstPart \o firstPart THEN Slash \o firstPart \o Slash
               ELSE IF /\ StartsWith(secondPart, firstPart)
                       /\ ~(remainder # <<>> /\ IsSeparatorChar(remainder[1]))
                    THEN IF Len(remainder) <= 2
                         THEN Slash \o firstPart \o Slash \o remainder \o Slash
                         ELSE path
                    ELSE path
      ELSE path

\* fixMalformedPaths(node), as a function of node.children
RECURSIVE fixMalformedPaths(_)
fixMalformedPaths(children) ==
  [i \in 1..Len(children) |->
     LET childNode == children[i].node
     IN  [key |-> children[i].key,
          node |-> IF childNode.path = <<>> THEN childNode
                   ELSE [childNode EXCEPT !.path = FixedPath(@),
                                          !.children = fixMalformedPaths(@)]]]

\* for (i...) if (pathParts[i] === pathParts[i+1])
HasDoubledSegment(path) ==
  LET pathParts == SplitNonEmpty(path)
  IN  \E i \in 1..(Len(pathParts) - 1) : pathParts[i] = pathParts[i + 1]

\* First loop of removeDuplicates: a grandchild keyed like its parent is
\* deleted, after handing its path to the parent when it has more segments
RemoveSameKeyGrandchild(childKey, childNode) ==
  IF Has(childNode.children, childKey)
  THEN LET grandchildNode == Get(childNode.children, childKey)
       IN  [childNode EXCEPT
              !.path = IF /\ grandchildNode.path # <<>>
                          /\ Len(Split(grandchildNode.path)) > Len(Split(@))
                       THEN grandchildNode.path ELSE @,
              !.children = Del(@, childKey)]
  ELSE childNode

\* Last block of the second loop: the same pattern, checked again after the
\* recursive call, this time also copying the title
AssignFromGrandchild(childKey, childNode) ==
  IF Has(childNode.children, childKey)
  THEN LET grandchildNode == Get(childNode.children, childKey)
           longer == Len(Split(grandchildNode.path)) > Len(Split(childNode.path))
       IN  [childNode EXCEPT
              !.path = IF longer THEN grandchildNode.path ELSE @,
              !.title = IF longer THEN grandchildNode.title ELSE @,
              !.children = Del(@, childKey)]
  ELSE childNode

\* removeDuplicates(node), as a function of node.children and node.path
\* (nodePath is None for the synthetic root { children: tree })
RECURSIVE removeDuplicates(_, _, _)
removeDuplicates(children, nodePath, duplicates) ==
  LET pass1 == [i \in 1..Len(children) |->
                  [key |-> children[i].key,
                   node |-> RemoveSameKeyGrandchild(children[i].key, children[i].node)]]
      deleted(e) ==
        \/ nodePath = Some(e.node.path)
        \/ e.node.path \in duplicates /\ HasDoubledSegment(e.node.path)
      kept == SelectSeq(pass1, LAMBDA e : ~deleted(e))
  IN  [i \in 1..Len(kept) |->
         LET childNode == kept[i].node
             recursed == [childNode EXCEPT
                            !.children = removeDuplicates(@, Some(childNode.path), duplicates)]
         IN  [key |-> kept[i].key,
              node |-> AssignFromGrandchild(kept[i].key, recursed)]]

\* cleanEmptyChildren: an empty children object is replaced by an empty object
RECURSIVE cleanEmptyChildren(_)
cleanEmptyChildren(children) ==
  IF Len(children) = 0 THEN <<>>
  ELSE [i \in 1..Len(children) |->
          [key |-> children[i].key,
           node |-> [children[i].node EXCEPT !.children = cleanEmptyChildren(@)]]]

\* cleanupTree without its duplicate removal step
cleanupTreeKeepingDuplicates(tree) ==
  cleanEmptyChildren(fixMalformedPaths(tree))

\* cleanupTree(tree): the tree afterwards
cleanupTree(tree) ==
  LET duplicates == DuplicatePaths(tree)
      fixed == fixMalformedPaths(tree)
      deduped == removeDuplicates(fixed, None, duplicates)
  IN  cleanEmptyChildren(deduped)

(***************************************************************************)
(* sortTree                                                                *)
(***************************************************************************)
\* Array.prototype.sort with a consistent comparator: stable.
\* cmp[i][j] is the comparator's result on the elements at positions i and j
StableSort(s, cmp) ==
  LET n == Len(s)
      before(j, i) == cmp[j][i] < 0 \/ (cmp[j][i] = 0 /\ j < i)
      pos(i) == 1 + Cardinality({j \in 1..n : before(j, i)})
  IN  [k \in 1..n |-> s[CHOOSE i \in 1..n : pos(i) = k]]

\* valueA - valueB for numbers, an undefined value counting as Infinity;
\* Infinity - Infinity is NaN, which sort treats as 0
NumCompare(valueA, valueB) ==
  IF ~IsSome(valueA) /\ ~IsSome(valueB) THEN 0
  ELSE IF ~IsSome(valueA) THEN 1
  ELSE IF ~IsSome(valueB) THEN -1
  ELSE IF Val(valueA) < Val(valueB) THEN -1
  ELSE IF Val(valueA) > Val(valueB) THEN 1
  ELSE 0

\* A value handed to a comparator: a number, a string, or Infinity (the
\* stand-in for an undefined property)
NumValue(n) == [kind |-> "number", num |-> n, str |-> <<>>]
StrValue(str) == [kind |-> "string", num |-> 0, str |-> str]
Infinity == [kind |-> "infinity", num |-> 0, str |-> <<>>]

\* Two strings go to localeCompare; anything else is subtracted, and a
\* subtraction involving a non-numeric string, or Infinity - Infinity, is
\* NaN, which sort treats as 0
CompareValues(valueA, valueB, sortReverse) ==
  LET x == IF sortReverse THEN valueB ELSE valueA
      y == IF sortReverse THEN valueA ELSE valueB
      num(v) == IF v.kind = "number" THEN Some(v.num) ELSE None
  IN  IF valueA.kind = "string" /\ valueB.kind = "string"
      THEN LocaleCompare(x.str, y.str)
      ELSE IF x.kind = "string" \/ y.kind = "string" THEN 0
      ELSE NumCompare(num(x), num(y))

\* The functions a configuration may pass as sortBy, by name:
\*   byTitle: (a, b) => a.title.localeCompare(b.title)
SortFunctions == {"byTitle"}

\* options.sortBy(a, b, options)
CallSortFunction(fn, itemA, itemB, options) == LocaleCompare(itemA.title, itemB.title)

\* item[propName] !== undefined ? item[propName] : Infinity, for a navigation node
NodeProp(item, propName) ==
  IF propName = "index"
  THEN IF IsSome(item.index) THEN NumValue(Val(item.index)) ELSE Infinity
  ELSE IF propName = "title" THEN StrValue(item.title)
  ELSE IF propName = "path" THEN StrValue(item.path)
  ELSE Infinity

\* The property comparator of sortTree: propName = options.sortBy || 'index'
\* (a function used as a property name finds nothing)
DefaultCompare(itemA, itemB, options) ==
  LET propName == IF options.sortBy = "" THEN "index" ELSE options.sortBy
  IN  CompareValues(NodeProp(itemA, propName), NodeProp(itemB, propName),
                    options.sortReverse)

\* sortFunction of sortTree, applied to the entries of the tree it is given
SortFunction(itemA, itemB, options) ==
  IF options.sortBy \in SortFunctions
  THEN CallSortFunction(options.sortBy, itemA, itemB, options)
  ELSE DefaultCompare(itemA, itemB, options)

RECURSIVE sortTree(_, _)
sortTree(tree, options) ==
  IF Len(tree) = 0 THEN tree
  ELSE
    LET compareEntries(t) ==
          [i \in 1..Len(t) |-> [j \in 1..Len(t) |->
             DefaultCompare(t[i].node, t[j].node, options)]]
        sortEntries(t) ==
          [i \in 1..Len(t) |-> [j \in 1..Len(t) |->
             SortFunction(t[i].node, t[j].node, options)]]
        sortedEntries == StableSort(tree, sortEntries(tree))
        sortChildren(children) ==
          LET childrenArray == StableSort(children, compareEntries(children))
          IN  [i \in 1..Len(childrenArray) |->
                 LET rest == childrenArray[i].node
                 IN  [key |-> childrenArray[i].key,
                      node |-> IF Len(rest.children) > 0
                               THEN [rest EXCEPT !.children = sortTree(@, options)]
                               ELSE rest]]
    IN  [i \in 1..Len(sortedEntries) |->
           LET value == sortedEntries[i].node
           IN  [key |-> sortedEntries[i].key,
                node |-> IF Len(value.children) > 0
                         THEN [value EXCEPT !.children = sortChildren(@)]
                         ELSE value]]

(***************************************************************************)
(* buildNavTree                                                            *)
(***************************************************************************)
\* files[a][options.sortBy] !== undefined ? files[a][options.sortBy] : Infinity
FileProp(file, propName) ==
  IF propName = "navIndex"
  THEN IF IsSome(file.navIndex) THEN NumValue(Val(file.navIndex)) ELSE Infinity
  ELSE IF propName \in StringKeys
  THEN IF IsSome(file[propName]) THEN StrValue(Val(file[propName])) ELSE Infinity
  ELSE Infinity

\* valA / valB of the comparator that orders filePaths before processing
FileSortValue(file, options) ==
  IF IsSome(file.navigation) /\ IsSome(Val(file.navigation).navIndex)
  THEN NumValue(Val(Val(file.navigation).navIndex))
  ELSE FileProp(file, options.sortBy)

FileCompare(fileA, fileB, options) ==
  CompareValues(FileSortValue(fileA, options), FileSortValue(fileB, options),
                options.sortReverse)

\* The order in which buildNavTree processes the files: positions in files
ProcessingOrder(files, options) ==
  IF options.sortBy = "" THEN [i \in 1..Len(files) |-> i]
  ELSE
  StableSort([i \in 1..Len(files) |-> i],
             [a \in 1..Len(files) |-> [b \in 1..Len(files) |->
                FileCompare(files[a], files[b], options)]])

\* A builder that never consults options.pathFilter
PathFilterIgnored(file, options) == FALSE

\* options.pathFilter && !options.pathFilter(filePath, file), for the filters
\* (filePath) => !filePath.startsWith(prefix); pathFilter is None or Some(prefix)
PathFilterRejects(file, options) ==
  IsSome(options.pathFilter) /\ StartsWith(file.fpath, Val(options.pathFilter))

\* !filename.endsWith('.html') && !filename.endsWith('.md')
IsContentFile(filePath) ==
  LET segs == Split(filePath)
      filename == segs[Len(segs)]
  IN  EndsWith(filename, DotHtml) \/ EndsWith(filename, DotMd)

\* The early returns of the per-file callback of buildNavTree
SkippedByBuilder(file, options) ==
  \/ NavPropExclude(file, options) \/ Truthy(file, options.navExcludeKey)
  \/ PathFilterRejects(file, options)
  \/ ~IsContentFile(file.fpath)

\* A builder that also consumes the label of the record it processes
WithPathAndNoLabel(file, normalizedPath) ==
  [file EXCEPT
     !.navigation = Some([(IF IsSome(@) THEN Val(@) ELSE EmptyNavigation)
                            EXCEPT !.path = Some(normalizedPath)]),
     !.path = Some(normalizedPath),
     !.navLabel = None]

\* The record of a processed file: navigation.path and path are written
WithPath(file, normalizedPath) ==
  [file EXCEPT
     !.navigation = Some([(IF IsSome(@) THEN Val(@) ELSE EmptyNavigation)
                            EXCEPT !.path = Some(normalizedPath)]),
     !.path = Some(normalizedPath)]

\* The loop of buildNavTree over the ordered file paths, as a fold:
\* acc is [tree, files], order the positions still to process
RECURSIVE ProcessFiles(_, _, _)
ProcessFiles(acc, order, options) ==
  IF order = <<>> THEN acc
  ELSE
    LET i == Head(order)
        file == acc.files[i]
        segs == Split(file.fpath)
        segments == SubSeq(segs, 1, Len(segs) - 1)
        navItem == NavItem(file, options)
        next ==
          IF SkippedByBuilder(file, options) THEN acc
          ELSE [tree |-> addToTree(acc.tree, segments, navItem, file.fpath, options),
                files |-> [acc.files EXCEPT ![i] = WithPath(file, navItem.path)]]
    IN  ProcessFiles(next, Tail(order), options)

\* buildNavTree(files, options): the returned tree and the file records afterwards
buildNavTree(files, options) ==
  LET processed == ProcessFiles([tree |-> <<>>, files |-> files],
                                ProcessingOrder(files, options), options)
  IN  [tree |-> sortTree(cleanupTree(processed.tree), options),
       files |-> processed.files]

(***************************************************************************)
(* generateBreadcrumbs                                                     *)
(***************************************************************************)
IndexDot == IndexName \o <<".">>

Crumb(title, path) == [title |-> title, path |-> path]
CrumbOf(node) == Crumb(node.title, node.path)

\* The home entry pushed first when navHomePage is set
HomeCrumb(navTree, options) ==
  Crumb(IF Has(navTree, HomeKey) THEN Get(navTree, HomeKey).title ELSE options.navHomeLabel,
        IF options.usePermalinks THEN Slash ELSE Slash \o IndexHtml)

\* The entries pushed for the segments of the file path
SegmentCrumbs(filePath, navTree, options) ==
  LET segments == SplitNonEmpty(filePath)
      n == Len(segments)
  IN  IF n = 0 THEN <<>>
      ELSE IF n = 1 THEN
        LET fileSegment == segments[1]
            key == ToLowerCase(StripExt(fileSegment))
        IN  IF Has(navTree, key) THEN <<CrumbOf(Get(navTree, key))>>
            ELSE <<Crumb(TitleCase(StripExt(fileSegment)),
                         IF options.usePermalinks
                         THEN Slash \o StripExt(fileSegment) \o Slash
                         ELSE Slash \o MdToHtml(fileSegment))>>
      ELSE
        LET parentKey == segments[1]
        IN  IF ~Has(navTree, parentKey) THEN <<>>
            ELSE
              LET parent == Get(navTree, parentKey)
              IN  IF n = 2 /\ ~StartsWith(segments[2], IndexDot) THEN
                    LET childKey == ToLowerCase(StripExt(segments[2]))
                    IN  IF Has(parent.children, childKey)
                        THEN <<CrumbOf(parent), CrumbOf(Get(parent.children, childKey))>>
                        ELSE <<CrumbOf(parent),
                               Crumb(TitleCase(StripExt(segments[2])),
                                     IF options.usePermalinks
                                     THEN Slash \o parentKey \o Slash
                                            \o StripExt(segments[2]) \o Slash
                                     ELSE Slash \o parentKey \o Slash
                                            \o MdToHtml(segments[2]))>>
                  ELSE
                    LET lastSegment == segments[n]
                        isIndexFile == lastSegment = IndexHtml \/ lastSegment = IndexMd
                        last == IF isIndexFile THEN n - 1 ELSE n
                        currentPath(i) ==
                          Slash \o parentKey
                            \o Concat([j \in 1..(i - 1) |-> Slash \o StripExt(segments[j + 1])])
                    IN  <<CrumbOf(parent)>> \o
                        [k \in 1..(last - 1) |->
                           Crumb(TitleCase(StripExt(segments[k + 1])),
                                 IF options.usePermalinks
                                 THEN currentPath(k + 1) \o Slash
                                 ELSE currentPath(k + 1) \o DotHtml)]

\* The record of one file after generateBreadcrumbs
WithBreadcrumb(file, navTree, options) ==
  IF Truthy(file, options.navExcludeKey) THEN file
  ELSE IF options.navHomePage /\ (file.fpath = IndexHtml \/ file.fpath = IndexMd)
  THEN [file EXCEPT !.breadcrumb = Some(<<HomeCrumb(navTree, options)>>)]
  ELSE
    LET breadcrumb ==
          (IF options.navHomePage THEN <<HomeCrumb(navTree, options)>> ELSE <<>>)
            \o SegmentCrumbs(file.fpath, navTree, options)
    IN  [file EXCEPT
           !.navigation = Some([(IF IsSome(@) THEN Val(@) ELSE EmptyNavigation)
                                  EXCEPT !.breadcrumb = Some(breadcrumb)]),
           !.breadcrumb = Some(breadcrumb)]

generateBreadcrumbs(files, navTree, options) ==
  [i \in 1..Len(files) |-> WithBreadcrumb(files[i], navTree, options)]

(***************************************************************************)
(* Section menus                                                           *)
(***************************************************************************)
\* sectionPath.startsWith('/') ? sectionPath : `/${sectionPath}`
NormalizedSectionPath(sectionPath) ==
  IF StartsWith(sectionPath, Slash) THEN sectionPath ELSE Slash \o sectionPath

\* sectionPath.replace(/^\/|\/$/g, '')
SectionKey(sectionPath) ==
  LET s1 == IF StartsWith(sectionPath, Slash) THEN Tail(sectionPath) ELSE sectionPath
  IN  StripTrailingSlash(s1)

\* findSection(tree, path): the first node, parents before children, whose
\* path is the section path, with or without its trailing slash
RECURSIVE findSection(_, _)
findSection(tree, normalizedSectionPath) ==
  IF tree = <<>> THEN None
  ELSE
    LET item == tree[1].node
        matches ==
          \/ item.path = normalizedSectionPath
          \/ /\ EndsWith(normalizedSectionPath, Slash)
             /\ item.path = DropLast(normalizedSectionPath, 1)
        found == IF Len(item.children) > 0
                 THEN findSection(item.children, normalizedSectionPath) ELSE None
    IN  IF matches THEN Some(item)
        ELSE IF IsSome(found) THEN found
        ELSE findSection(Tail(tree), normalizedSectionPath)

\* A scan that settles for the first top-level node when none has the path
TopLevelByPathOrFirst(navTree, normalizedSectionPath) ==
  LET hits == {i \in 1..Len(navTree) : navTree[i].node.path = normalizedSectionPath}
  IN  IF navTree = <<>> THEN None
      ELSE IF hits = {} THEN Some(navTree[1].node)
      ELSE Some(navTree[CHOOSE i \in hits : \A j \in hits : i <= j].node)

\* The top-level scan by path
TopLevelByPath(navTree, normalizedSectionPath) ==
  LET hits == {i \in 1..Len(navTree) : navTree[i].node.path = normalizedSectionPath}
  IN  IF hits = {} THEN None
      ELSE Some(navTree[CHOOSE i \in hits : \A j \in hits : i <= j].node)

\* A lookup that scans the top level only
SectionNodeAtTopOnly(navTree, sectionPath, keyFirst) ==
  TopLevelByPath(navTree, NormalizedSectionPath(sectionPath))

\* sectionNode for a section path other than '/'; keyFirst: the loop over
\* several configurations first looks the section key up at the top level
SectionNode(navTree, sectionPath, keyFirst) ==
  LET normalizedSectionPath == NormalizedSectionPath(sectionPath)
      sectionKey == SectionKey(sectionPath)
      direct == IF keyFirst /\ Has(navTree, sectionKey)
                THEN Some(Get(navTree, sectionKey))
                ELSE TopLevelByPath(navTree, normalizedSectionPath)
  IN  IF IsSome(direct) THEN direct ELSE findSection(navTree, normalizedSectionPath)

\* The loop over Object.entries(sectionMenus): the metadata afterwards
RECURSIVE WriteSectionMenus(_, _, _, _)
WriteSectionMenus(meta, navTree, sectionMenus, keyFirst) ==
  IF sectionMenus = <<>> THEN meta
  ELSE
    LET sectionPath == sectionMenus[1].sectionPath
        menuKey == sectionMenus[1].menuKey
        sectionNode == SectionNode(navTree, sectionPath, keyFirst)
        meta1 == IF sectionPath = Slash THEN Put(meta, menuKey, navTree)
                 ELSE IF IsSome(sectionNode) THEN Put(meta, menuKey, Val(sectionNode).children)
                 ELSE meta
    IN  WriteSectionMenus(meta1, navTree, Tail(sectionMenus), keyFirst)

(***************************************************************************)
(* Inputs: file paths, file records, options                               *)
(***************************************************************************)
S_about == <<"a", "b", "o", "u", "t">>
S_blog == <<"b", "l", "o", "g">>
S_post1 == <<"p", "o", "s", "t", "1">>
S_blogpost1 == <<"b", "l", "o", "g", "p", "o", "s", "t", "-", "1">>
S_category == <<"c", "a", "t", "e", "g", "o", "r", "y">>
S_deeppost == <<"d", "e", "e", "p", "-", "p", "o", "s", "t">>
S_app == <<"a", "p", "p">>
S_apps == <<"a", "p", "p", "s">>
S_News == <<"N", "e", "w", "s">>
S_archive == <<"a", "r", "c", "h", "i", "v", "e">>
S_old == <<"o", "l", "d">>

F_index == IndexMd
F_about == S_about \o DotMd
F_blog == S_blog \o DotMd
F_blog_index == S_blog \o Slash \o IndexMd
F_blog_post1 == S_blog \o Slash \o S_post1 \o DotMd
F_blog_blogpost1 == S_blog \o Slash \o S_blogpost1 \o DotHtml
F_blog_category_deeppost == S_blog \o Slash \o S_category \o Slash \o S_deeppost \o DotHtml
F_app_apps_index == S_app \o Slash \o S_apps \o Slash \o IndexMd
F_blog_archive_old == S_blog \o Slash \o S_archive \o Slash \o S_old \o DotHtml
F_home == HomeKey \o DotMd
F_reindex == <<"r", "e">> \o IndexHtml
F_blog_myindex == S_blog \o Slash \o <<"m", "y">> \o IndexMd
F_css_style == <<"c", "s", "s">> \o Slash \o <<"s", "t", "y", "l", "e", ".", "c", "s", "s">>

\* The output paths a file collection is drawn from
PathUniverse ==
  <<F_index, F_about, F_blog_index, F_blog_post1, F_blog_blogpost1,
    F_blog_category_deeppost, F_app_apps_index, F_blog>>

\* A file record as the host pipeline hands it over
PlainFile(fpath) ==
  [fpath |-> fpath, navExclude |-> FALSE, footerExclude |-> FALSE,
   navLabel |-> None, navIndex |-> None,
   navigation |-> None, path |-> None, breadcrumb |-> None]

\* Front matter variants of a file
FileVariant(fpath, variant) ==
  CASE variant = "plain" -> PlainFile(fpath)
    [] variant = "excluded" -> [PlainFile(fpath) EXCEPT !.navExclude = TRUE]
    [] variant = "navExcluded" ->
         [PlainFile(fpath) EXCEPT
            !.navigation = Some([EmptyNavigation EXCEPT !.navExclude = TRUE])]
    [] variant = "footerExcluded" -> [PlainFile(fpath) EXCEPT !.footerExclude = TRUE]
    [] variant = "navFooterExcluded" ->
         [PlainFile(fpath) EXCEPT
            !.navigation = Some([EmptyNavigation EXCEPT !.footerExclude = TRUE])]
    [] variant = "directLabelled" -> [PlainFile(fpath) EXCEPT !.navLabel = Some(S_News)]
    [] variant = "labelled" ->
         [PlainFile(fpath) EXCEPT
            !.navigation = Some([EmptyNavigation EXCEPT !.navLabel = Some(S_News),
                                                        !.navIndex = Some(1)])]

Variants == {"excluded", "navExcluded", "labelled"}

\* Largest number of files in a collection
MaxFiles == 3

\* Sequences of k distinct positions of the universe: ordered selections
Selections(n, k) ==
  {s \in [1..k -> 1..n] : \A i \in 1..k : \A j \in 1..k : i # j => s[i] # s[j]}

\* The file collections: up to MaxFiles distinct paths in any order; the
\* first file listed may carry front matter
FileCollections ==
  LET n == Len(PathUniverse)
      ordered == UNION {Selections(n, k) : k \in 0..MaxFiles}
      plain(s) == [i \in 1..Len(s) |-> PlainFile(PathUniverse[s[i]])]
  IN  {plain(s) : s \in ordered}
        \cup {[plain(s) EXCEPT ![1] = FileVariant(PathUniverse[s[1]], v)] :
                s \in ordered \ {<<>>}, v \in Variants}

\* defaultOpts of autonav
DefaultOptions ==
  [navKey |-> "nav", navLabelKey |-> "navLabel", navExcludeKey |-> "navExclude",
   navHomePage |-> TRUE, navHomeLabel |-> HomeTitle, sortBy |-> "navIndex",
   sortReverse |-> FALSE, pathFilter |-> None, usePermalinks |-> TRUE]

OptionSets ==
  {[DefaultOptions EXCEPT !.usePermalinks = p, !.navHomePage = h] :
     p \in BOOLEAN, h \in BOOLEAN}

(***************************************************************************)
(* The plugin run                                                          *)
(***************************************************************************)
S_main == <<"m", "a", "i", "n">>
S_footer == <<"f", "o", "o", "t", "e", "r">>

\* How the host calls the plugin function:
\*   sectionMenus  options.sectionMenus, as its entries (none: <<>>)
\*   hasDone       a done callback is passed (otherwise the promise is used)
\*   store         what metalsmith.metadata() does: "ok", "throws", "null"
DefaultCall == [sectionMenus |-> <<>>, hasDone |-> TRUE, store |-> "ok"]

\* One invocation: the files, the single options object or the named
\* configurations (merged over defaultOpts), and the call
SingleRun(fs, opts, c) == [files |-> fs, options |-> opts, configs |-> <<>>, call |-> c]
ConfigsRun(fs, cfgs, c) ==
  [files |-> fs, options |-> cfgs[1].opts, configs |-> cfgs, call |-> c]

\* Runs over the file collections with a single options object
TreeRuns == {SingleRun(fs, opts, DefaultCall) : fs \in FileCollections, opts \in OptionSets}

\* All orderings of all selections of the paths of a sequence, as plain files
OrderedPlain(paths) ==
  LET n == Len(paths)
  IN  {[i \in 1..Len(sel) |-> PlainFile(paths[sel[i]])] :
         sel \in UNION {Selections(n, k) : k \in 0..n}}

\* The first file of a collection given a front matter variant
WithVariants(collections, variants) ==
  collections \cup
    {[fs EXCEPT ![1] = FileVariant(fs[1].fpath, v)] :
       fs \in collections \ {<<>>}, v \in variants}

S_mainNav == "mainNav"
S_footerNav == "footerNav"

\* options.configs = { main: {...}, footer: {...} }
TwoConfigs(mainOpts, footerOpts) ==
  <<[name |-> S_main, opts |-> [mainOpts EXCEPT !.navKey = S_mainNav]],
    [name |-> S_footer, opts |-> [footerOpts EXCEPT !.navKey = S_footerNav]]>>

\* sectionMenus: { '/': 'mainMenu' }
RootMenu == <<[sectionPath |-> Slash, menuKey |-> "mainMenu"]>>

\* Runs that vary how the plugin is called and what the metadata store does
StoreRuns ==
  LET collections == OrderedPlain(<<F_index, F_about, F_blog_post1>>)
      calls == {[sectionMenus |-> m, hasDone |-> d, store |-> st] :
                  m \in {<<>>, RootMenu}, d \in BOOLEAN, st \in {"ok", "throws", "null"}}
  IN  {SingleRun(fs, DefaultOptions, c) : fs \in collections, c \in calls}
        \cup {ConfigsRun(fs, TwoConfigs(DefaultOptions, DefaultOptions), c) :
                 fs \in collections, c \in calls}

\* Runs with two configurations that differ in their keys and policies
ConfigOptionSets ==
  {[DefaultOptions EXCEPT !.navExcludeKey = e, !.navLabelKey = l, !.usePermalinks = p] :
     e \in FlagKeys, l \in StringKeys, p \in BOOLEAN}

ConfigRuns ==
  LET collections ==
        WithVariants(OrderedPlain(<<F_about, F_blog_index>>) \cup OrderedPlain(<<F_blog, F_blog_category_deeppost>>),
                     {"excluded", "footerExcluded", "navFooterExcluded", "labelled"})
  IN  {ConfigsRun(fs, TwoConfigs(m, f), DefaultCall) :
         fs \in collections,
         m \in {o \in ConfigOptionSets : o.navLabelKey = "navLabel"},
         f \in ConfigOptionSets}

\* Runs with pathFilter: (filePath) => !filePath.startsWith('blog/')
FilterRuns ==
  {SingleRun(fs, [DefaultOptions EXCEPT !.pathFilter = Some(S_blog \o Slash),
                                        !.usePermalinks = p], DefaultCall) :
     fs \in OrderedPlain(<<F_about, F_blog_post1, F_blog_category_deeppost, F_css_style>>),
     p \in BOOLEAN}

S_Start == <<"S", "t", "a", "r", "t">>

\* Runs that vary where the titles come from: the label key or a label
\* function, labels in the front matter, the home label
LabelRuns ==
  LET collections == WithVariants(OrderedPlain(<<F_index, F_about, F_blog_index>>),
                                  {"labelled", "directLabelled"})
  IN  {SingleRun(fs, [DefaultOptions EXCEPT !.navLabelKey = l, !.navHomeLabel = h],
                 DefaultCall) :
         fs \in collections,
         l \in {"navLabel"} \cup LabelFunctions,
         h \in {HomeTitle, S_Start}}

\* A file with navigation: { navIndex: n } in its front matter
Indexed(fpath, n) ==
  [PlainFile(fpath) EXCEPT !.navigation = Some([EmptyNavigation EXCEPT !.navIndex = Some(n)])]

\* All orderings of all selections of the records of a sequence
Ordered(records) ==
  LET n == Len(records)
  IN  {[i \in 1..Len(sel) |-> records[sel[i]]] :
         sel \in UNION {Selections(n, k) : k \in 0..n}}

\* Runs that vary the sort options over files with sort indexes
SortRuns ==
  LET collections == Ordered(<<Indexed(F_about, 2),
                               Indexed(F_blog_category_deeppost, 1),
                               Indexed(F_blog_archive_old, 3),
                               Indexed(F_blog_post1, 4)>>)
  IN  {SingleRun(fs, [DefaultOptions EXCEPT !.sortBy = sb, !.sortReverse = r],
                 DefaultCall) :
         fs \in collections,
         sb \in {"navIndex", "index", "title"} \cup SortFunctions,
         r \in BOOLEAN}

\* sectionMenus: { 'blog': 'menuA', '/blog': 'menuB', 'blog/': 'menuC', '/blog/': 'menuD' }
SpelledMenus ==
  <<[sectionPath |-> S_blog, menuKey |-> "menuA"],
    [sectionPath |-> Slash \o S_blog, menuKey |-> "menuB"],
    [sectionPath |-> S_blog \o Slash, menuKey |-> "menuC"],
    [sectionPath |-> Slash \o S_blog \o Slash, menuKey |-> "menuD"]>>

\* sectionMenus objects: { '/': 'mainMenu', '/blog/': 'blogMenu' },
\* { '/blog/category/': 'categoryMenu' }, { '/app/apps/': 'appsMenu', '/about/': 'aboutMenu' }
SectionMenuObjects ==
  {<<[sectionPath |-> Slash, menuKey |-> "mainMenu"],
     [sectionPath |-> Slash \o S_blog \o Slash, menuKey |-> "blogMenu"]>>,
   <<[sectionPath |-> Slash \o S_blog \o Slash \o S_category \o Slash,
      menuKey |-> "categoryMenu"]>>,
   <<[sectionPath |-> Slash \o S_app \o Slash \o S_apps \o Slash, menuKey |-> "appsMenu"],
     [sectionPath |-> Slash \o S_about \o Slash, menuKey |-> "aboutMenu"]>>,
   SpelledMenus}

\* Runs that ask for section menus, with one options object and with two
\* configurations
MenuRuns ==
  LET collections == OrderedPlain(<<F_about, F_blog_category_deeppost,
                                    F_blog_archive_old, F_app_apps_index>>)
      calls == {[DefaultCall EXCEPT !.sectionMenus = m] : m \in SectionMenuObjects}
      optionSets == {[DefaultOptions EXCEPT !.usePermalinks = p] : p \in BOOLEAN}
  IN  {SingleRun(fs, opts, c) : fs \in collections, opts \in optionSets, c \in calls}
        \cup {ConfigsRun(fs, TwoConfigs(opts, DefaultOptions), c) :
                 fs \in collections, opts \in optionSets, c \in calls}

S_Main == <<"M", "a", "i", "n">>
S_header == <<"h", "e", "a", "d", "e", "r">>

\* options.configs = { [firstName]: {...}, [secondName]: {...} }
NamedConfigs(firstName, firstOpts, secondName, secondOpts) ==
  <<[name |-> firstName, opts |-> [firstOpts EXCEPT !.navKey = S_mainNav]],
    [name |-> secondName, opts |-> [secondOpts EXCEPT !.navKey = S_footerNav]]>>

\* Runs with section menus and two configurations whose names put the
\* primary one first or second, and whose trees differ
PrimaryRuns ==
  LET collections == WithVariants(OrderedPlain(<<F_blog_category_deeppost, F_about>>),
                                  {"footerExcluded"})
      names == {<<S_main, S_footer>>, <<S_footer, S_Main>>, <<S_header, S_footer>>}
      menus == <<[sectionPath |-> Slash, menuKey |-> "mainMenu"],
                 [sectionPath |-> Slash \o S_blog \o Slash, menuKey |-> "blogMenu"]>>
  IN  {ConfigsRun(fs, NamedConfigs(n[1], [DefaultOptions EXCEPT !.usePermalinks = p],
                                   n[2], [DefaultOptions EXCEPT !.navExcludeKey = "footerExclude"]),
                  [DefaultCall EXCEPT !.sectionMenus = menus]) :
         fs \in collections, n \in names, p \in BOOLEAN}

\* Runs over root-level files, one of them home.md
RootRuns ==
  {SingleRun(fs, [DefaultOptions EXCEPT !.usePermalinks = p, !.navHomePage = h], DefaultCall) :
     fs \in OrderedPlain(<<F_index, F_home, F_about>>), p \in BOOLEAN, h \in BOOLEAN}

\* Runs over files whose names end with, but are not, index.html or index.md
IndexNameRuns ==
  {SingleRun(fs, [DefaultOptions EXCEPT !.usePermalinks = p], DefaultCall) :
     fs \in OrderedPlain(<<F_reindex, F_blog_myindex, F_blog_index>>), p \in BOOLEAN}

\* The invocations explored
Runs ==
  TreeRuns \cup StoreRuns \cup ConfigRuns \cup FilterRuns \cup LabelRuns \cup SortRuns
    \cup MenuRuns \cup PrimaryRuns \cup RootRuns \cup IndexNameRuns

\* files: the host's file records, mutated in place by the plugin
\* input: the file records as the host handed them over (never written)
\* options: the options of the configuration being processed
\* configs, ci: the named configurations and the position of the one being
\*   processed (<<>> and 0 when a single options object is given)
\* call: how the plugin function was called
\* outcome: the calls of done made so far, the state of the returned promise
VARIABLES files, input, options, configs, ci, call, metadata, outcome, pc
vars == <<files, input, options, configs, ci, call, metadata, outcome, pc>>

\* metalsmith.metadata()[opts.navKey], None while unset
NavKey == options.navKey
Nav == IF Has(metadata, NavKey) THEN Some(Get(metadata, NavKey)) ELSE None

InitRun(run) ==
  /\ files = run.files
  /\ input = run.files
  /\ options = run.options
  /\ configs = run.configs
  /\ ci = IF run.configs = <<>> THEN 0 ELSE 1
  /\ call = run.call
  /\ metadata = <<>>
  /\ outcome = [doneCalls |-> <<>>,
                promise |-> IF run.call.hasDone THEN "unused" ELSE "pending",
                error |-> None]
  /\ pc = "start"

Init == \E run \in Runs : InitRun(run)

\* const navTree = buildNavTree(files, opts, debug);
\* metalsmith.metadata()[opts.navKey] = navTree;
BuildTree ==
  /\ pc = "start"
  /\ call.store = "ok"
  /\ LET built == buildNavTree(files, options)
     IN  /\ files' = built.files
         /\ metadata' = Put(metadata, NavKey, built.tree)
  /\ pc' = "built"
  /\ UNCHANGED <<input, options, configs, ci, call, outcome>>

\* The same two statements when metalsmith.metadata() throws or returns
\* null: buildNavTree has run, the assignment raises, the catch block of
\* processNavigation turns the error into a rejection
BuildTreeFails ==
  /\ pc = "start"
  /\ call.store # "ok"
  /\ files' = buildNavTree(files, options).files
  /\ outcome' = [outcome EXCEPT
                   !.error = Some(IF call.store = "throws" THEN "MetadataError"
                                  ELSE "TypeError")]
  /\ pc' = "rejected"
  /\ UNCHANGED <<input, options, configs, ci, call, metadata>>

\* generateBreadcrumbs(files, navTree, opts, debug);
Breadcrumbs ==
  /\ pc = "built"
  /\ files' = generateBreadcrumbs(files, Get(metadata, NavKey), options)
  /\ pc' = "crumbs"
  /\ UNCHANGED <<input, options, configs, ci, call, metadata, outcome>>

\* The configuration whose tree feeds the section menus: the one named
\* 'main' in any letter case, or else the first
MainConfigName ==
  LET mains == {i \in 1..Len(configs) : ToLowerCase(configs[i].name) = S_main}
  IN  IF mains = {} THEN configs[1].name
      ELSE configs[CHOOSE i \in mains : \A j \in mains : i <= j].name

\* Section menus generated after the breadcrumbs of every configuration
MenusApplicableToAll == call.sectionMenus # <<>>

\* The condition under which the section menus are generated after the
\* breadcrumbs of the configuration being processed
MenusApplicable ==
  /\ call.sectionMenus # <<>>
  /\ IF configs = <<>> THEN TRUE
     ELSE \/ ToLowerCase(configs[ci].name) = S_main
          \/ configs[ci].name = MainConfigName

\* for (const [sectionPath, menuKey] of Object.entries(sectionMenus)) ...
SectionMenus ==
  /\ pc = "crumbs"
  /\ MenusApplicable
  /\ metadata' = WriteSectionMenus(metadata, Get(metadata, NavKey),
                                   call.sectionMenus, configs # <<>>)
  /\ pc' = "menus"
  /\ UNCHANGED <<files, input, options, configs, ci, call, outcome>>

\* The work for the configuration being processed is complete
ConfigComplete == pc = "menus" \/ (pc = "crumbs" /\ ~MenusApplicable)

\* The step to the next configuration with the exclusion key of the
\* previous one left in force
NextConfigKeepingExcludeKey ==
  /\ ConfigComplete
  /\ ci < Len(configs)
  /\ ci' = ci + 1
  /\ options' = [configs[ci + 1].opts EXCEPT !.navExcludeKey = options.navExcludeKey]
  /\ pc' = "start"
  /\ UNCHANGED <<files, input, configs, call, metadata, outcome>>

\* for (const configName of Object.keys(options.configs)): the next one
NextConfig ==
  /\ ConfigComplete
  /\ ci < Len(configs)
  /\ ci' = ci + 1
  /\ options' = configs[ci + 1].opts
  /\ pc' = "start"
  /\ UNCHANGED <<files, input, configs, call, metadata, outcome>>

\* processNavigation() resolves: done is called through setImmediate, or
\* the caller holds the resolved promise
Finish ==
  /\ ConfigComplete
  /\ ci >= Len(configs)
  /\ outcome' = IF call.hasDone
                THEN [outcome EXCEPT !.doneCalls = Append(@, None)]
                ELSE [outcome EXCEPT !.promise = "resolved"]
  /\ pc' = "done"
  /\ UNCHANGED <<files, input, options, configs, ci, call, metadata>>

\* A rejection that is reported to the caller as a success
FinishSwallowingError ==
  /\ pc = "rejected"
  /\ outcome' = IF call.hasDone
                THEN [outcome EXCEPT !.doneCalls = Append(@, None)]
                ELSE [outcome EXCEPT !.promise = "resolved"]
  /\ pc' = "done"
  /\ UNCHANGED <<files, input, options, configs, ci, call, metadata>>

\* processNavigation() rejects: done(err) is called through setImmediate,
\* or the caller holds the rejected promise
FinishWithError ==
  /\ pc = "rejected"
  /\ outcome' = IF call.hasDone
                THEN [outcome EXCEPT !.doneCalls = Append(@, outcome.error)]
                ELSE [outcome EXCEPT !.promise = "rejected"]
  /\ pc' = "failed"
  /\ UNCHANGED <<files, input, options, configs, ci, call, metadata>>

Next ==
  \/ BuildTree
  \/ BuildTreeFails
  \/ Breadcrumbs
  \/ SectionMenus
  \/ NextConfig
  \/ Finish
  \/ FinishWithError

Spec == Init /\ [][Next]_vars

\* The invocations that vary the call and the metadata store, with the
\* event loop running the async function and every setImmediate callback
\* to completion
InitStore == \E run \in StoreRuns : InitRun(run)

\* Every step of Next moves pc, and a step of Next is possible wherever the
\* outcome has not been reported yet: weak fairness of Next, stated on pc
Positions == {"start", "built", "crumbs", "menus", "rejected", "done", "failed"}
Advance == pc \notin {"done", "failed"} /\ pc' \in Positions \ {pc}
OutcomeSpec == InitStore /\ [][Next]_vars /\ WF_pc(Advance)

(***************************************************************************)
(* Vocabulary of the properties                                            *)
(***************************************************************************)
Done == pc = "done"

\* A finished run that was given a single options object
SingleDone == Done /\ configs = <<>>

\* The tree written to the metadata slot
FinalTree == IF Has(metadata, NavKey) THEN Get(metadata, NavKey) ELSE <<>>

LastSegment(fpath) == LET segs == Split(fpath) IN segs[Len(segs)]
DirSegments(fpath) == LET segs == Split(fpath) IN SubSeq(segs, 1, Len(segs) - 1)
Basename(fpath) == StripExt(LastSegment(fpath))
IsIndexPath(fpath) == LastSegment(fpath) = IndexMd \/ LastSegment(fpath) = IndexHtml

\* Excluded by either spelling of the exclusion flag
HasExclusionFlag(file) ==
  Truthy(file, options.navExcludeKey) \/ NavPropExclude(file, options)

\* Not excluded, accepted by the path filter, extension .html or .md
Eligible(file) == ~SkippedByBuilder(file, options)

\* "a/" \o "b/" ... for the segments a, b, ...
JoinSlash(segs) == Concat([i \in 1..Len(segs) |-> segs[i] \o Slash])

\* The node reached from the top level by a chain of keys, if any
RECURSIVE NodeAt(_, _)
NodeAt(tree, chain) ==
  IF chain = <<>> \/ ~Has(tree, chain[1]) THEN None
  ELSE IF Len(chain) = 1 THEN Some(Get(tree, chain[1]))
  ELSE NodeAt(Get(tree, chain[1]).children, Tail(chain))

\* All nodes of a tree, at every depth
RECURSIVE AllNodes(_)
AllNodes(tree) ==
  UNION {{tree[i].node} \cup AllNodes(tree[i].node.children) : i \in 1..Len(tree)}

(***************************************************************************)
(* C1: with default options every eligible non-index file of a directory D *)
(* is, in the final tree, a child of D's node keyed by its basename, with  *)
(* path /D/<basename>/.                                                    *)
(***************************************************************************)
C1_NestedFileIsChildOfItsDirectory ==
  (SingleDone /\ options = DefaultOptions) =>
    \A i \in 1..Len(input) :
      LET f == input[i]
          dir == NodeAt(FinalTree, DirSegments(f.fpath))
      IN  (Eligible(f) /\ ~IsIndexPath(f.fpath) /\ Len(DirSegments(f.fpath)) > 0) =>
            /\ IsSome(dir)
            /\ Has(Val(dir).children, Basename(f.fpath))
            /\ Get(Val(dir).children, Basename(f.fpath)).path =
                 Slash \o JoinSlash(DirSegments(f.fpath)) \o Basename(f.fpath) \o Slash

(***************************************************************************)
(* C2: a directory with an index file and other eligible files: the        *)
(* directory's node carries the index file's title, path and sort index,   *)
(* and its children contain every other eligible file of the directory,    *)
(* whatever the processing order.                                          *)
(***************************************************************************)
C2_IndexMergesIntoDirectoryNode ==
  SingleDone =>
    \A i \in 1..Len(input) :
      LET f == input[i]
          dir == NodeAt(FinalTree, DirSegments(f.fpath))
      IN  (Eligible(f) /\ IsIndexPath(f.fpath) /\ Len(DirSegments(f.fpath)) > 0) =>
            /\ IsSome(dir)
            /\ Val(dir).title = NavTitle(f, options)
            /\ Val(dir).path = NormalizedPath(f.fpath, options)
            /\ Val(dir).index = NavPropIndex(f)
            /\ \A j \in 1..Len(input) :
                 LET g == input[j]
                 IN  (/\ Eligible(g) /\ ~IsIndexPath(g.fpath)
                      /\ DirSegments(g.fpath) = DirSegments(f.fpath)) =>
                       Has(Val(dir).children, Basename(g.fpath))

(***************************************************************************)
(* C3: building the tree from the same collection and options with the     *)
(* files presented in another order yields the same keys at every level    *)
(* and the same path at every node.                                        *)
(***************************************************************************)
\* The keys at every level with the path at every node
RECURSIVE Shape(_, _)
Shape(tree, prefix) ==
  UNION {{<<prefix \o <<tree[i].key>>, tree[i].node.path>>}
           \cup Shape(tree[i].node.children, prefix \o <<tree[i].key>>) :
         i \in 1..Len(tree)}

Reordered(fs, s) == [i \in 1..Len(fs) |-> fs[s[i]]]

C3_TreeIndependentOfFileOrder ==
  (pc = "built" /\ configs = <<>>) =>
    \A s \in Selections(Len(input), Len(input)) :
      Shape(buildNavTree(Reordered(input, s), options).tree, <<>>) = Shape(FinalTree, <<>>)

(***************************************************************************)
(* C4: for every non-excluded file the last entry of its breadcrumb has    *)
(* the file's own normalized path.                                         *)
(***************************************************************************)
C4_LastCrumbIsTheFile ==
  SingleDone =>
    \A i \in 1..Len(files) :
      ~HasExclusionFlag(input[i]) =>
        /\ IsSome(files[i].breadcrumb)
        /\ Len(Val(files[i].breadcrumb)) > 0
        /\ Val(files[i].breadcrumb)[Len(Val(files[i].breadcrumb))].path =
             NormalizedPath(files[i].fpath, options)

(***************************************************************************)
(* C5: for every non-excluded file the breadcrumb length is (1 if home     *)
(* inclusion is on, else 0) plus the number of segments of the canonical   *)
(* path, an index file contributing no segment of its own.                 *)
(***************************************************************************)
CanonicalSegmentCount(fpath) ==
  Len(Split(fpath)) - (IF IsIndexPath(fpath) THEN 1 ELSE 0)

C5_BreadcrumbLength ==
  SingleDone =>
    \A i \in 1..Len(files) :
      ~HasExclusionFlag(input[i]) =>
        /\ IsSome(files[i].breadcrumb)
        /\ Len(Val(files[i].breadcrumb)) =
             (IF options.navHomePage THEN 1 ELSE 0) + CanonicalSegmentCount(files[i].fpath)

(***************************************************************************)
(* C6: a file whose exclusion flag is true, in either place the builder    *)
(* accepts it, contributes no node to the tree and gets no breadcrumb.     *)
(***************************************************************************)
Without(fs, i) == SubSeq(fs, 1, i - 1) \o SubSeq(fs, i + 1, Len(fs))

C6_ExcludedFileHasNoNodeNoBreadcrumb ==
  SingleDone =>
    \A i \in 1..Len(files) :
      HasExclusionFlag(input[i]) =>
        /\ FinalTree = buildNavTree(Without(input, i), options).tree
        /\ files[i].breadcrumb = None
        /\ IsSome(files[i].navigation) => Val(files[i].navigation).breadcrumb = None

(***************************************************************************)
(* C7: under the permalink policy an index file maps to its directory path *)
(* ending in '/', any other file to '/' + all directory segments + the     *)
(* basename without extension + '/', at any depth.                         *)
(***************************************************************************)
PermalinkOf(fpath) ==
  IF IsIndexPath(fpath)
  THEN Slash \o JoinSlash(DirSegments(fpath))
  ELSE Slash \o JoinSlash(DirSegments(fpath)) \o Basename(fpath) \o Slash

C7_PermalinkPaths ==
  (pc # "start" /\ configs = <<>> /\ options.usePermalinks) =>
    \A i \in 1..Len(files) :
      Eligible(input[i]) => files[i].path = Some(PermalinkOf(files[i].fpath))

(***************************************************************************)
(* C8: with usePermalinks false a .md path gets .html, a .html path is     *)
(* unchanged, and no path other than the root ends with '/' in the final   *)
(* tree or in any breadcrumb.                                              *)
(***************************************************************************)
\* The paths of all breadcrumb entries written on the files
CrumbPaths ==
  UNION {IF IsSome(files[i].breadcrumb)
         THEN {Val(files[i].breadcrumb)[k].path : k \in 1..Len(Val(files[i].breadcrumb))}
         ELSE {} : i \in 1..Len(files)}

TreePaths == {n.path : n \in AllNodes(FinalTree)}

C8_NoTrailingSlashWithoutPermalinks ==
  (SingleDone /\ ~options.usePermalinks) =>
    /\ \A i \in 1..Len(files) :
         Eligible(input[i]) => files[i].path = Some(Slash \o MdToHtml(files[i].fpath))
    /\ \A p \in TreePaths \cup CrumbPaths : EndsWith(p, Slash) => p = Slash

(***************************************************************************)
(* C9: blog/blogpost-1.html, whose basename begins with its directory's    *)
(* name: its node under blog has the path /blog/blogpost-1/.               *)
(***************************************************************************)
C9_PrefixedBasenameKept ==
  (SingleDone /\ options.usePermalinks) =>
    \A i \in 1..Len(input) :
      (input[i].fpath = F_blog_blogpost1 /\ Eligible(input[i])) =>
        LET dir == NodeAt(FinalTree, <<S_blog>>)
        IN  /\ IsSome(dir)
            /\ Has(Val(dir).children, S_blogpost1)
            /\ Get(Val(dir).children, S_blogpost1).path =
                 Slash \o S_blog \o Slash \o S_blogpost1 \o Slash

(***************************************************************************)
(* C10: in every node of the final tree, at every depth, no child has a    *)
(* path equal to the node's own path.                                      *)
(***************************************************************************)
NoSelfReference(tree) ==
  \A n \in AllNodes(tree) :
    \A k \in 1..Len(n.children) : n.children[k].node.path # n.path

C10_NoChildWithParentPath ==
  pc # "start" => NoSelfReference(FinalTree)

\* The tree as the per-file loop leaves it, before cleanupTree and sortTree
RawTree ==
  ProcessFiles([tree |-> <<>>, files |-> input], ProcessingOrder(input, options), options).tree

\* A finished run whose tree still has nested nodes and whose raw tree held
\* a child with its parent's path
C10_Witness ==
  /\ Done
  /\ ~NoSelfReference(RawTree)
  /\ \E n \in AllNodes(FinalTree) : n.children # <<>>


(***************************************************************************)
(* C11: every node of a finished tree, at every depth and including the    *)
(* directory placeholder nodes, has a string title, a children mapping     *)
(* and a path that starts with '/'.                                        *)
(***************************************************************************)
\* A JavaScript string: a finite sequence of characters
IsString(v) == DOMAIN v = 1..Len(v) /\ \A i \in 1..Len(v) : v[i] \in STRING

\* An insertion-ordered mapping: entries with pairwise distinct keys
IsMapping(m) ==
  /\ DOMAIN m = 1..Len(m)
  /\ \A i \in 1..Len(m) : \A j \in 1..Len(m) : m[i].key = m[j].key => i = j

WellFormedNode(n) ==
  /\ IsString(n.title)
  /\ IsMapping(n.children)
  /\ IsString(n.path) /\ StartsWith(n.path, Slash)

\* Every tree published in the metadata: the navigation trees and the menus
PublishedTrees == {metadata[i].node : i \in 1..Len(metadata)}

TreeAlone(opts) == buildNavTree(input, opts).tree

PluginWrittenKeys == {"path", "breadcrumb"}
ConfiguredKeys(opts) == {opts.navLabelKey, opts.navExcludeKey, opts.sortBy}
KeysCollide == \E k \in 1..Len(configs) : ConfiguredKeys(configs[k].opts) \cap PluginWrittenKeys # {}

Terminal == pc \in {"done", "failed"}

\* The options of every configuration of the invocation
AllOptions ==
  IF configs = <<>> THEN {options} ELSE {configs[k].opts : k \in 1..Len(configs)}

\* Every tree is in the metadata and every file that some configuration
\* does not exclude carries a breadcrumb
AllWritten ==
  /\ \A opts \in AllOptions : Has(metadata, opts.navKey)
  /\ \A i \in 1..Len(files) :
       (\E opts \in AllOptions : ~Truthy(files[i], opts.navExcludeKey))
         => IsSome(files[i].breadcrumb)

\* The error raised by the assignment to metalsmith.metadata()[navKey]
StoreError == IF call.store = "throws" THEN "MetadataError" ELSE "TypeError"

C13_OutcomeIsConsistent ==
  /\ Len(outcome.doneCalls) <= 1
  /\ call.hasDone => outcome.promise = "unused"
  /\ ~call.hasDone => outcome.doneCalls = <<>>
  /\ (outcome.doneCalls # <<>> \/ outcome.promise \in {"resolved", "rejected"}) <=> Terminal
  /\ pc = "done" =>
       /\ call.store = "ok"
       /\ AllWritten
       /\ IF call.hasDone THEN outcome.doneCalls = <<None>>
          ELSE outcome.promise = "resolved"
  /\ pc = "failed" =>
       /\ call.store # "ok"
       /\ outcome.error = Some(StoreError)
       /\ IF call.hasDone THEN outcome.doneCalls = <<Some(StoreError)>>
          ELSE outcome.promise = "rejected"

\* C13: one invocation produces exactly one terminal outcome: done is called
\* exactly once, after all trees and breadcrumbs are written, with no
\* argument on success or with the error on failure; the returned promise
\* settles once, resolved or rejected with the error; an unavailable
\* metadata store gives the failure outcome carrying that error; once
\* reported, the outcome never changes
C13_ExactlyOneTerminalOutcome ==
  /\ []C13_OutcomeIsConsistent
  /\ [][Terminal => outcome' = outcome]_vars
  /\ <>Terminal
  /\ [](call.store # "ok" => <>(pc = "failed"))

\* The metadata store was unavailable and done has been called with the error
C13_Witness ==
  /\ pc = "failed" /\ call.store = "null" /\ call.hasDone
  /\ outcome.doneCalls = <<Some("TypeError")>>


\* The path segments that stand for pages: all of them, without a trailing
\* index file
PageSegments(fpath) ==
  SubSeq(Split(fpath), 1, CanonicalSegmentCount(fpath))

\* The tree keys of the first j page segments
KeyChain(fpath, j) ==
  [k \in 1..j |-> ToLowerCase(StripExt(PageSegments(fpath)[k]))]

\* The entry that stands in for the j-th page segment of a file when the
\* tree has no node for it
SynthesizedCrumb(crumb, fpath, j) ==
  LET segs == PageSegments(fpath)
      stem == Concat([k \in 1..j |-> Slash \o StripExt(segs[k])])
  IN  /\ crumb.title = TitleCase(StripExt(segs[j]))
      /\ StartsWith(crumb.path, stem)
      /\ options.usePermalinks => crumb.path = stem \o Slash

\* C14: breadcrumb generation never fails because a tree node is missing:
\* every file without the exclusion flag gets a breadcrumb array, and a
\* path segment that has no node in the tree is represented by a
\* synthesized entry (title-cased segment, path under the active permalink
\* policy) instead of being dropped
C14_MissingSegmentsAreSynthesized ==
  SingleDone =>
    \A i \in 1..Len(files) :
      ~HasExclusionFlag(input[i]) =>
        /\ IsSome(files[i].breadcrumb)
        /\ \A j \in 1..Len(PageSegments(files[i].fpath)) :
             NodeAt(FinalTree, KeyChain(files[i].fpath, j)) = None =>
               \E c \in 1..Len(Val(files[i].breadcrumb)) :
                 SynthesizedCrumb(Val(files[i].breadcrumb)[c], files[i].fpath, j)


\* The label field of a file, in the navigation object or on the record
ExplicitLabel(file) ==
  LET nested == NavPropLabel(file, options)
  IN  IF IsSome(nested) /\ Val(nested) # <<>> THEN nested
      ELSE StringProp(file, options.navLabelKey)

\* The title by the stated priority order: label function, explicit label,
\* parent directory of an index file, basename
TitleByPriority(file) ==
  IF options.navLabelKey \in LabelFunctions
  THEN CallLabelFunction(options.navLabelKey, file, file.fpath, LastSegment(file.fpath))
  ELSE IF IsSome(ExplicitLabel(file)) /\ Val(ExplicitLabel(file)) # <<>>
  THEN Val(ExplicitLabel(file))
  ELSE IF IsIndexPath(file.fpath)
  THEN TitleCase(DirSegments(file.fpath)[Len(DirSegments(file.fpath))])
  ELSE TitleCase(Basename(file.fpath))

IsRootIndex(fpath) == fpath = IndexMd \/ fpath = IndexHtml

\* The nodes of the final tree that stand for a file: those at the path the
\* builder wrote on the file record
NodesOf(file) ==
  IF IsSome(file.path)
  THEN {n \in AllNodes(FinalTree) : n.path = Val(file.path)}
  ELSE {}

\* C15: the title of the node created for a file is the return value of the
\* label function when navLabelKey is a function; otherwise the explicit
\* label when present and non-empty; otherwise, for an index file, the
\* title-cased name of its parent directory; otherwise the title-cased
\* basename (the root index file without a label has no parent directory
\* and is left to C16)
C15_TitlePriority ==
  SingleDone =>
    \A i \in 1..Len(files) :
      (/\ Eligible(input[i])
       /\ ~(IsRootIndex(input[i].fpath) /\ options.navLabelKey \notin LabelFunctions
              /\ ExplicitLabel(input[i]) \in {None, Some(<<>>)})) =>
        \A n \in NodesOf(files[i]) : n.title = TitleByPriority(input[i])


\* C16: when the root index file has no label override, its node's title
\* and the title of the home entry of every breadcrumb equal the configured
\* navHomeLabel, for any value of navHomeLabel
C16_HomeLabelIsConfigured ==
  SingleDone =>
    \A i \in 1..Len(files) :
      (/\ IsRootIndex(input[i].fpath)
       /\ Eligible(input[i])
       /\ options.navLabelKey \notin LabelFunctions
       /\ ExplicitLabel(input[i]) \in {None, Some(<<>>)}) =>
        /\ Has(FinalTree, HomeKey) => Get(FinalTree, HomeKey).title = options.navHomeLabel
        /\ options.navHomePage =>
             \A j \in 1..Len(files) :
               (IsSome(files[j].breadcrumb) /\ Val(files[j].breadcrumb) # <<>>) =>
                 Val(files[j].breadcrumb)[1].title = options.navHomeLabel


\* The sibling lists of a tree: its top level and the children of every node
Levels(tree) == {tree} \cup {n.children : n \in AllNodes(tree)}

\* The sort key of a node under the configured sortBy, Infinity when the
\* node lacks it (the sort index of a file is carried by its node as index)
SortKey(node) ==
  IF options.sortBy \in {"navIndex", "index", ""} THEN NodeProp(node, "index")
  ELSE NodeProp(node, options.sortBy)

\* a may stand before b in ascending order: a keyless sibling only before
\* keyless ones
InAscendingOrder(a, b) ==
  LET ka == SortKey(a)
      kb == SortKey(b)
  IN  IF ka = Infinity THEN kb = Infinity
      ELSE kb = Infinity \/ CompareValues(ka, kb, FALSE) <= 0

\* C17: with no custom comparator, at every level of the final tree the
\* siblings appear in ascending order of the configured sort key, and
\* siblings that lack the key appear after all siblings that have it,
\* directory nodes included
C17_SiblingsAscending ==
  (SingleDone /\ options.sortBy \notin SortFunctions /\ ~options.sortReverse) =>
    \A level \in Levels(FinalTree) :
      \A i \in 1..Len(level) : \A j \in 1..Len(level) :
        i < j => InAscendingOrder(level[i].node, level[j].node)


\* C18: when sortBy is a comparator function, the order of siblings at
\* every level of the final tree (the top level, the children of top-level
\* nodes, and every deeper level) is the order that comparator decides
C18_ComparatorDecidesEveryLevel ==
  (SingleDone /\ options.sortBy \in SortFunctions) =>
    \A level \in Levels(FinalTree) :
      \A i \in 1..Len(level) : \A j \in 1..Len(level) :
        i < j => CallSortFunction(options.sortBy, level[i].node, level[j].node, options) <= 0


\* The tree the same files and options give with sortReverse inverted
ReversedRunTree == buildNavTree(input, [options EXCEPT !.sortReverse = ~@]).tree

\* The sort keys of the siblings of a level are pairwise different (a
\* missing key counts as one value)
DistinctKeys(level) ==
  \A i \in 1..Len(level) : \A j \in 1..Len(level) :
    i # j => SortKey(level[i].node) # SortKey(level[j].node)

\* One tree is the other with the siblings of every level in reverse order
RECURSIVE MirrorImage(_, _)
MirrorImage(a, b) ==
  /\ Len(a) = Len(b)
  /\ \A i \in 1..Len(a) :
       LET x == a[i]
           y == b[Len(b) + 1 - i]
       IN  /\ x.key = y.key
           /\ MirrorImage(x.node.children, y.node.children)

\* C19: for the same files and options, when all siblings have distinct sort
\* key values, the order of siblings at every level of the tree built with
\* sortReverse true is the exact reverse of the order built with
\* sortReverse false
C19_ReverseIsMirrorImage ==
  (/\ SingleDone
   /\ options.sortBy \notin SortFunctions
   /\ \A level \in Levels(FinalTree) : DistinctKeys(level)) =>
    MirrorImage(FinalTree, ReversedRunTree)


\* The finished tree the section menus are taken from: the tree of the
\* single options object, or of the configuration named main (else the first)
MenuTree ==
  IF configs = <<>> THEN FinalTree
  ELSE LET k == CHOOSE k \in 1..Len(configs) : configs[k].name = MainConfigName
       IN  Get(metadata, configs[k].opts.navKey)

\* C20: for each section-menu mapping prefix -> key: when the prefix is
\* '/', the entire finished tree is published under the key; otherwise,
\* when a node whose path equals the prefix exists (at the top level or at
\* any depth), the collection published under the key has exactly the keys
\* and nodes of that node's children in the finished tree
C20_SectionMenusPublished ==
  Done =>
    \A e \in 1..Len(call.sectionMenus) :
      LET prefix == call.sectionMenus[e].sectionPath
          menuKey == call.sectionMenus[e].menuKey
          sections == {n \in AllNodes(MenuTree) : n.path = prefix}
      IN  IF prefix = Slash
          THEN Has(metadata, menuKey) /\ Get(metadata, menuKey) = MenuTree
          ELSE sections # {} =>
                 /\ Has(metadata, menuKey)
                 /\ \E n \in sections : Get(metadata, menuKey) = n.children

\* A section below the top level was found and its children, which are
\* not empty, were published; so was the whole tree under another key
C20_Witness ==
  /\ Done
  /\ \E e \in 1..Len(call.sectionMenus) :
       /\ call.sectionMenus[e].sectionPath # Slash
       /\ Has(metadata, call.sectionMenus[e].menuKey)
       /\ Get(metadata, call.sectionMenus[e].menuKey) # <<>>
       /\ \E n \in AllNodes(MenuTree) :
            /\ n.path = call.sectionMenus[e].sectionPath
            /\ n.children = Get(metadata, call.sectionMenus[e].menuKey)
  /\ \E e \in 1..Len(call.sectionMenus) :
       /\ call.sectionMenus[e].sectionPath = Slash
       /\ Get(metadata, call.sectionMenus[e].menuKey) = MenuTree


\* The nodes of the finished tree whose path is the section prefix, the
\* prefix given its leading '/'
SectionsAt(prefix) ==
  {n \in AllNodes(MenuTree) : n.path = NormalizedSectionPath(prefix)}

PrefixMatches(prefix) ==
  \/ SectionsAt(prefix) # {}
  \/ configs # <<>> /\ Has(MenuTree, SectionKey(prefix))

Published(menuKey) ==
  IF Has(metadata, menuKey) THEN Some(Get(metadata, menuKey)) ELSE None

\* C22: a section-menu prefix is normalized before lookup, so the spellings
\* 'blog', '/blog', 'blog/' and '/blog/' of the same prefix all resolve to
\* the same node and publish the same collection, with one options object
\* and with several configurations alike
C22_SpellingsAgree ==
  Done =>
    \A e1 \in 1..Len(call.sectionMenus) : \A e2 \in 1..Len(call.sectionMenus) :
      SectionKey(call.sectionMenus[e1].sectionPath) = SectionKey(call.sectionMenus[e2].sectionPath)
        => Published(call.sectionMenus[e1].menuKey) = Published(call.sectionMenus[e2].menuKey)


\* The primary configuration: the one named 'main' in any letter case, or
\* the first one when none is
PrimaryIndex ==
  LET mains == {k \in 1..Len(configs) : ToLowerCase(configs[k].name) = S_main}
  IN  IF mains = {} THEN 1 ELSE CHOOSE k \in mains : \A j \in mains : k <= j

TreeOfConfig(k) == Get(metadata, configs[k].opts.navKey)

\* A collection was taken from a tree: it is the tree or the children of
\* one of its nodes
TakenFrom(collection, tree) ==
  collection = tree \/ \E n \in AllNodes(tree) : collection = n.children

TurnedAway(file) ==
  \/ IsSome(options.pathFilter) /\ StartsWith(file.fpath, Val(options.pathFilter))
  \/ ~(EndsWith(file.fpath, DotHtml) \/ EndsWith(file.fpath, DotMd))

\* The tree and the file records a run over the collection produces
RunOver(collection) ==
  LET built == buildNavTree(collection, options)
  IN  [tree |-> built.tree,
       files |-> generateBreadcrumbs(built.files, built.tree, options)]

\* C24: a file rejected by the path filter, or whose extension is neither
\* .html nor .md, contributes no node (leaf or directory placeholder) and
\* never fails the run; the tree and the other file records are what a run
\* without that file produces
C24_TurnedAwayFilesAreAbsent ==
  SingleDone =>
    /\ outcome.error = None
    /\ \A i \in 1..Len(input) :
         TurnedAway(input[i]) =>
           /\ FinalTree = RunOver(Without(input, i)).tree
           /\ Without(files, i) = RunOver(Without(input, i)).files
           /\ \A n \in AllNodes(FinalTree) :
                n.path # NormalizedPath(input[i].fpath, options)

\* A run over a filtered file, a stylesheet and an accepted file: only the
\* accepted one is in the tree
C24_Witness ==
  /\ SingleDone /\ Len(input) = 3
  /\ \E i, j, k \in 1..3 :
       /\ input[i].fpath = F_blog_category_deeppost /\ TurnedAway(input[i])
       /\ input[j].fpath = F_css_style
       /\ input[k].fpath = F_about
  /\ Len(FinalTree) = 1


IsRootLevel(fpath) == Len(Split(fpath)) = 1

\* The path of the site index node
SiteIndexPath == IF options.usePermalinks THEN Slash ELSE Slash \o IndexHtml

\* C25: the root index file is stored under the top-level key 'home';
\* every other root-level file is a top-level sibling under its own key,
\* never a child of home; whenever the key 'home' is present it holds the
\* site index node, whatever other root-level files exist
C25_HomeIsTheSiteIndex ==
  SingleDone =>
    /\ \A i \in 1..Len(input) :
         (Eligible(input[i]) /\ IsRootLevel(input[i].fpath)) =>
           IF IsIndexPath(input[i].fpath)
           THEN Has(FinalTree, HomeKey)
           ELSE /\ Has(FinalTree, ToLowerCase(Basename(input[i].fpath)))
                /\ Has(FinalTree, HomeKey) =>
                     \A n \in AllNodes(Get(FinalTree, HomeKey).children) :
                       n.path # NormalizedPath(input[i].fpath, options)
    /\ Has(FinalTree, HomeKey) =>
         /\ Get(FinalTree, HomeKey).path = SiteIndexPath
         /\ \E i \in 1..Len(input) : IsRootLevel(input[i].fpath) /\ IsIndexPath(input[i].fpath)


\* The breadcrumbs a record carries after the run: under the breadcrumb key
\* and inside the navigation object
WrittenBreadcrumbs(file) ==
  (IF IsSome(file.breadcrumb) THEN {Val(file.breadcrumb)} ELSE {})
    \cup (IF IsSome(file.navigation) /\ IsSome(Val(file.navigation).breadcrumb)
          THEN {Val(Val(file.navigation).breadcrumb)} ELSE {})

IsRootIndexFile(file) == file.fpath = IndexMd \/ file.fpath = IndexHtml

\* C26: with navHomePage set, the first entry of every written breadcrumb
\* is the home entry (path '/' under permalinks, '/index.html' otherwise)
\* and the breadcrumb of the root index is exactly that single entry; with
\* navHomePage unset, the breadcrumb of a file other than the root index
\* has no home entry
C26_HomeEntry ==
  SingleDone =>
    \A i \in 1..Len(files) : \A breadcrumb \in WrittenBreadcrumbs(files[i]) :
      IF options.navHomePage
      THEN /\ breadcrumb # <<>>
           /\ breadcrumb[1].path = SiteIndexPath
           /\ IsRootIndexFile(files[i]) => Len(breadcrumb) = 1
      ELSE ~IsRootIndexFile(files[i]) =>
             \A k \in 1..Len(breadcrumb) : breadcrumb[k].path # SiteIndexPath


\* The file name ends with index.md or index.html without being one of them
EndsLikeIndex(fpath) ==
  /\ EndsWith(LastSegment(fpath), IndexMd) \/ EndsWith(LastSegment(fpath), IndexHtml)
  /\ ~IsIndexPath(fpath)

\* The path of an ordinary page
OrdinaryPath(fpath) ==
  IF options.usePermalinks THEN PermalinkOf(fpath) ELSE Slash \o MdToHtml(fpath)

\* C27: a file is treated as an index file only when its basename is
\* exactly 'index'; a file such as reindex.html or blog/myindex.md is an
\* ordinary page for the path normalizer (its own path), the tree builder
\* (a node of its own with that path) and the breadcrumb generator (its
\* breadcrumb ends with that page)
C27_OnlyIndexIsIndex ==
  SingleDone =>
    \A i \in 1..Len(input) :
      (EndsLikeIndex(input[i].fpath) /\ Eligible(input[i])) =>
        /\ files[i].path = Some(OrdinaryPath(input[i].fpath))
        /\ \E n \in AllNodes(FinalTree) : n.path = OrdinaryPath(input[i].fpath)
        /\ \A breadcrumb \in WrittenBreadcrumbs(files[i]) :
             /\ breadcrumb # <<>>
             /\ breadcrumb[Len(breadcrumb)].path = OrdinaryPath(input[i].fpath)


\* The fields of a record, or of its navigation object, that the host owns
HostFields == {"navExclude", "footerExclude", "navLabel", "navIndex"}

HostNavigation(file) ==
  IF IsSome(file.navigation) THEN Val(file.navigation) ELSE EmptyNavigation

\* The record carries the direct exclusion flag of every configuration
DirectlyExcluded(file) == \A opts \in AllOptions : Truthy(file, opts.navExcludeKey)

\* C28: a run changes on a file record only the computed path, the
\* navigation object (its path and breadcrumb) and the breadcrumb key;
\* every other field keeps its value, no record is added or removed, and a
\* record excluded by its direct exclusion flag is not modified at all
C28_OnlyOwnFieldsAreWritten ==
  /\ Len(files) = Len(input)
  /\ \A i \in 1..Len(files) :
       /\ files[i].fpath = input[i].fpath
       /\ \A f \in HostFields :
            /\ files[i][f] = input[i][f]
            /\ HostNavigation(files[i])[f] = HostNavigation(input[i])[f]
       /\ DirectlyExcluded(input[i]) => files[i] = input[i]

\* A finished run over a directly excluded record, left as it was, and a
\* labelled record that received its path and breadcrumb
C28_Witness ==
  /\ Done
  /\ \E i \in 1..Len(files) : DirectlyExcluded(input[i]) /\ files[i] = input[i]
  /\ \E j \in 1..Len(files) :
       /\ files[j].path # input[j].path
       /\ files[j].breadcrumb # input[j].breadcrumb
       /\ files[j].navigation # input[j].navigation

\* The same for a record that carries a label of its own
C28_LabelWitness ==
  /\ Done
  /\ \E j \in 1..Len(files) :
       /\ IsSome(input[j].navLabel)
       /\ files[j].path # input[j].path
       /\ files[j].breadcrumb # input[j].breadcrumb


\* Every node of a tree with the chain of keys that leads to it
RECURSIVE ChainedNodes(_, _)
ChainedNodes(tree, chain) ==
  UNION {{[chain |-> Append(chain, tree[i].key), node |-> tree[i].node]}
           \cup ChainedNodes(tree[i].node.children, Append(chain, tree[i].key)) :
         i \in 1..Len(tree)}

\* C29: under the permalink policy the path of every node of the final
\* tree other than home equals '/' followed by the keys on the chain from
\* the top level down to the node, each followed by '/'
C29_PathFollowsPosition ==
  (SingleDone /\ options.usePermalinks) =>
    \A c \in ChainedNodes(FinalTree, <<>>) :
      c.chain # <<HomeKey>> => c.node.path = Slash \o JoinSlash(c.chain)


\* C30: when the run fails because the metadata store is unavailable, every
\* file record is left exactly as it was before the run: no path,
\* navigation object or breadcrumb has been written on any file
C30_FailedRunLeavesFilesAlone ==
  (pc = "failed" /\ call.store # "ok") => files = input

====
